---- MODULE Spec2Model ----
(***************************************************************************)
(* Urban noise survey (BoranKY/urban-noise-survey): the three Streamlit    *)
(* scripts app_survey.py, app_survey_2_mod.py and app_survey_3.py.         *)
(*                                                                         *)
(* A script is re-executed from its first line on every browser event.     *)
(* One script run is modelled as the sequence of steps                     *)
(*   load -> (clean) -> (sindex) -> render -> select -> form -> done       *)
(* and the browser events (map click, widget change, submit press) start   *)
(* the next run.  What survives between runs is what Streamlit keeps: the  *)
(* st.cache_data / st.cache_resource memo tables, the map component's      *)
(* last_object_clicked, and what was written outside the process (the      *)
(* backup CSV, the requests posted).                                       *)
(*                                                                         *)
(* Scores are kept in hundredths (0.33 is 33), coordinates on an integer   *)
(* grid, road geometries as axis-parallel lines, so that distances, clamps *)
(* and bin searches are exact.                                             *)
(***************************************************************************)
EXTENDS Integers, Sequences, FiniteSets, TLC

\* ---------------------------------------------------------------- bounds
MaxFeat == 2
GridMax == 2
MaxSubmit == 2
MaxVisible == 3
MaxBuckets == 5
MaxOver == 2

\* ---------------------------------------------------------- the scripts
Variants == {"app_survey", "app_survey_2_mod", "app_survey_3"}

\* ----------------------------------------------------------- cell values
\* A cell of the "disturbance" column: a number (hundredths), NaN, or a
\* non-numeric string.  "absent" is a feature without the property.
Num(v) == [k |-> "num", v |-> v]
NaN == [k |-> "nan", v |-> 0]
Text == [k |-> "text", v |-> 0]
Absent == [k |-> "absent", v |-> 0]

\* pd.to_numeric(..., errors="coerce"), one cell
ToNumeric(s) == IF s.k = "num" THEN s ELSE NaN

\* .fillna(0.0), one cell
FillNa(s) == IF s.k = "nan" THEN Num(0) ELSE s

\* .clip(0, 1), one cell (NaN stays NaN)
ClipLowerOnly(s) == IF s.k = "num" /\ s.v < 0 THEN Num(0) ELSE s
Clip(s) ==
  IF s.k # "num" THEN s
  ELSE IF s.v < 0 THEN Num(0)
  ELSE IF s.v > 100 THEN Num(100)
  ELSE s

\* bins = [0, 0.33, 0.66, 1], labels = ["Low", "Medium", "High"]
bins == <<0, 33, 66, 100>>
labels == <<"Low", "Medium", "High">>
NanLabel == "nan"

\* pd.cut(x, bins, labels, include_lowest=True), one cell: right-closed
\* intervals, the first one closed on the left too; NaN and values outside
\* [bins[1], bins[4]] get no category (NaN).
CutLeftClosed(s) ==
  IF s.k # "num" THEN NanLabel
  ELSE IF s.v < bins[1] \/ s.v > bins[4] THEN NanLabel
  ELSE IF s.v < bins[2] THEN labels[1]
  ELSE IF s.v < bins[3] THEN labels[2]
  ELSE labels[3]
Cut(s) ==
  IF s.k # "num" THEN NanLabel
  ELSE IF s.v < bins[1] \/ s.v > bins[4] THEN NanLabel
  ELSE IF s.v <= bins[2] THEN labels[1]
  ELSE IF s.v <= bins[3] THEN labels[2]
  ELSE labels[3]

\* ------------------------------------------------------------ geometries
Line(x1, y1, x2, y2) == [x1 |-> x1, y1 |-> y1, x2 |-> x2, y2 |-> y2]
LineA == Line(0, 0, 1, 0)
LineB == Line(0, 2, 1, 2)
LineC == Line(2, 0, 2, 2)

NullGeom == [type |-> "null", parts |-> <<>>]
EmptyGeom == [type |-> "LineString", parts |-> <<>>]
PointGeom == [type |-> "Point", parts |-> <<Line(1, 1, 1, 1)>>]
LS(l) == [type |-> "LineString", parts |-> <<l>>]
MLS(ls) == [type |-> "MultiLineString", parts |-> ls]

\* ------------------------------------------------------- the source file
\* A GeoJSON feature: geometry, the "disturbance" property, the
\* "disturbance_label" property ("absent" when the feature has none) and a
\* "highway" property.
Feature(g, s, l, h) == [geometry |-> g, disturbance |-> s, label |-> l, highway |-> h]

FeaturePool ==
  <<Feature(NullGeom, Absent, "absent", "residential"),
    Feature(EmptyGeom, Text, "absent", "residential"),
    Feature(PointGeom, Num(90), "absent", "residential"),
    Feature(MLS(<<LineA, LineB>>), Num(130), "absent", "primary"),
    Feature(LS(LineC), Absent, "absent", "residential"),
    Feature(LS(LineC), Num(50), "absent", "primary"),
    Feature(LS(LineA), Text, "absent", "residential"),
    Feature(LS(LineB), Num(-20), "High", "primary")>>

\* a file is kept as the pool positions of its features, in file order
Files == UNION {[1..n -> DOMAIN FeaturePool] : n \in 1..MaxFeat}
Features(f) == [i \in 1..Len(f) |-> FeaturePool[f[i]]]

\* the i-th feature's "osmid" property
OsmidOf(i) == 100 + i

\* ------------------------------------------------------------ data frame
\* A GeoDataFrame: its rows in order and which of the two optional columns
\* it has.  src is the position of the row's feature in the file (history
\* only: no code reads it).
EmptyFrame == [rows |-> <<>>, cols |-> {}]

RowOf(f, i) ==
  [src |-> i,
   osmid |-> OsmidOf(i),
   highway |-> f.highway,
   geometry |-> f.geometry,
   disturbance |-> IF f.disturbance.k = "absent" THEN NaN ELSE f.disturbance,
   label |-> IF f.label = "absent" THEN NanLabel ELSE f.label]

\* gpd.GeoDataFrame.from_features(data["features"]): one row per feature, a
\* column for every property some feature has, NaN where a feature lacks it.
FromFeatures(fs) ==
  [rows |-> [i \in 1..Len(fs) |-> RowOf(fs[i], i)],
   cols |-> (IF \E i \in 1..Len(fs) : fs[i].disturbance.k # "absent"
               THEN {"disturbance"} ELSE {})
            \cup (IF \E i \in 1..Len(fs) : fs[i].label # "absent"
               THEN {"disturbance_label"} ELSE {})]

\* gdf[gdf.geometry.notna()]
IsNotNa(r) == r.geometry.type # "null"
\* gdf[~gdf.geometry.is_empty]
IsNotEmpty(r) == r.geometry.parts # <<>>
\* gdf[gdf.geometry.geom_type.isin(["LineString", "MultiLineString"])]
IsLinear(r) == r.geometry.type \in {"LineString", "MultiLineString"}

\* the rows of one exploded row: one per part, everything else copied
PartsKeepFirstAttrs(r) ==
  [j \in 1..Len(r.geometry.parts) |->
     IF j = 1 THEN [r EXCEPT !.geometry = LS(r.geometry.parts[j])]
     ELSE [r EXCEPT !.geometry = LS(r.geometry.parts[j]),
                    !.highway = "", !.disturbance = NaN]]
PartsTwice(r) ==
  [j \in 1..(2 * Len(r.geometry.parts)) |->
     [r EXCEPT !.geometry = LS(r.geometry.parts[((j - 1) % Len(r.geometry.parts)) + 1])]]
PartsOf(r) ==
  [j \in 1..Len(r.geometry.parts) |-> [r EXCEPT !.geometry = LS(r.geometry.parts[j])]]

\* gdf.explode(index_parts=False, ignore_index=True)
RECURSIVE Explode(_)
Explode(rows) ==
  IF rows = <<>> THEN <<>>
  ELSE PartsOf(Head(rows)) \o Explode(Tail(rows))

\* lines 170-178 of app_survey.py, 136-140 of app_survey_2_mod.py, 160-164
\* of app_survey_3.py
CleanGeometryNoTypeFilter(rows) ==
  Explode(SelectSeq(SelectSeq(rows, IsNotNa), IsNotEmpty))
CleanGeometry(rows) ==
  Explode(SelectSeq(SelectSeq(SelectSeq(rows, IsNotNa), IsNotEmpty), IsLinear))

\* the column assignments, row by row
CoerceCell(r) == [r EXCEPT !.disturbance = ToNumeric(r.disturbance)]
CoerceRows(rows) == [i \in 1..Len(rows) |-> CoerceCell(rows[i])]
ClampCell(r) == [r EXCEPT !.disturbance = Clip(FillNa(ToNumeric(r.disturbance)))]
ClampRows(rows) == [i \in 1..Len(rows) |-> ClampCell(rows[i])]
LabelCell(r) == [r EXCEPT !.label = Cut(r.disturbance)]
LabelRows(rows) == [i \in 1..Len(rows) |-> LabelCell(rows[i])]

\* if "disturbance_label" not in gdf.columns: gdf["disturbance_label"] = pd.cut(...)
LabelFallback(gdf) ==
  IF "disturbance_label" \in gdf.cols THEN gdf
  ELSE [rows |-> LabelRows(gdf.rows),
        cols |-> gdf.cols \cup {"disturbance_label"}]

\* --------------------------------------------------------------- loaders
\* load_data of app_survey.py, from the decoded features on (lines 139-159):
\* the score column is coerced (a missing column becomes a NaN column) and
\* the label derived from the coerced, not yet clamped, score.
LoadDataSurvey(fs) ==
  LET gdf == FromFeatures(fs)
      num == [rows |-> CoerceRows(gdf.rows),
              cols |-> gdf.cols \cup {"disturbance"}]
  IN  [status |-> "ok", gdf |-> LabelFallback(num)]

\* load_data of app_survey_2_mod.py (lines 124-156) and of app_survey_3.py
\* (lines 145-180).  gdf.get("disturbance") of a frame without that column
\* is None, pd.to_numeric(None, errors="coerce") is a float NaN and
\* .fillna raises AttributeError: the run dies inside load_data.  An empty
\* frame ends in st.error + st.stop(), which does not return either.
LoadDataCached(fs) ==
  LET gdf == FromFeatures(fs)
      geo == CleanGeometry(gdf.rows)
      num == [rows |-> ClampRows(geo), cols |-> gdf.cols]
      lab == LabelFallback(num)
  IN  IF "disturbance" \notin gdf.cols THEN [status |-> "crashed", gdf |-> EmptyFrame]
      ELSE IF Len(lab.rows) = 0 THEN [status |-> "stopped", gdf |-> EmptyFrame]
      ELSE [status |-> "ok", gdf |-> lab]

\* module-level cleaning of app_survey.py (lines 170-190)
CleanSurvey(gdf) ==
  LabelFallback([rows |-> ClampRows(CleanGeometry(gdf.rows)),
                 cols |-> gdf.cols])

\* ------------------------------------------------------------- distances
Points == (0..GridMax) \X (0..GridMax)
NoClick == <<-1, -1>>

Gap(lo, hi, c) == IF c < lo THEN lo - c ELSE IF c > hi THEN c - hi ELSE 0

\* squared distance of point p to the axis-parallel line l
Dist2(l, p) ==
  LET dx == Gap(l.x1, l.x2, p[1])
      dy == Gap(l.y1, l.y2, p[2])
  IN  dx * dx + dy * dy

SetMin(S) == CHOOSE m \in S : \A n \in S : m <= n
SetMax(S) == CHOOSE m \in S : \A n \in S : m >= n

\* geometry.distance(point): the least distance over the geometry's parts
GeomDist2(g, p) == SetMin({Dist2(g.parts[j], p) : j \in 1..Len(g.parts)})

\* the rows at the least distance from p
ArgMin(rows, p) ==
  {i \in 1..Len(rows) :
     \A j \in 1..Len(rows) : GeomDist2(rows[i].geometry, p) <= GeomDist2(rows[j].geometry, p)}

TieRules == {"first", "last"}
Pick(S, rule) == IF rule = "first" THEN SetMin(S) ELSE SetMax(S)

\* ------------------------------------------------------------------ state
VARIABLES
  variant,        \* which script is deployed
  file,           \* the file at DF_PATH
  sortTie,        \* which of several equal distances sort_values() puts first
  treeTie,        \* which of several equidistant geometries sindex.nearest returns
  dataCache,      \* st.cache_data memo of load_data(DF_PATH)
  sindexCache,    \* st.cache_resource memo of get_sindex: "unbuilt", "ok", "none"
  df,             \* the script's df
  sindex,         \* the script's sindex: "unset", "ok", "none"
  pc,             \* where the current run is
  msg,            \* what the run has shown last (st.error / st.info / ...)
  rendered,       \* st_folium(m, ...) has drawn the map in this run
  click,          \* the map component's last_object_clicked
  selected,       \* position in df of the selected row last computed, 0 for None
  path,           \* how selected was computed: "none", "index", "brute"
  raised,         \* the index query raised when selected was computed
  name,           \* the "Name and surname" text input (app_survey_3.py)
  submitPressed,  \* the submit button is the event that started this run
  posted,         \* the payloads handed to requests.post in this run, in order
  backup,         \* the rows of responses_backup.csv, in order
  visible,        \* classifier: the scores of the visible segments, in segment order
  scheme,         \* classifier: "continuous", "quantile" or "equal_bins"
  buckets,        \* classifier: k, the number of buckets or bins
  breaks,         \* classifier: the k+1 breakpoints, each times k (<<>> when continuous)
  position,       \* classifier: the normalized position of every visible score
  probe,          \* labelling: the "disturbance" property of a one-feature file
  probed,         \* labelling: the store built from that file
  colours,        \* the value handed to cmap(...) for each row of the map last drawn
  ran,            \* history: the build steps whose body has run to its end in this process
  firstStore      \* history: the store as the first successful build left it

vars == <<variant, file, sortTie, treeTie, dataCache, sindexCache, df, sindex, pc,
          msg, rendered, click, selected, path, raised, name, submitPressed,
          posted, backup, colours, ran, firstStore,
          visible, scheme, buckets, breaks, position, probe, probed>>

\* the score classifier with selectable schemes: no part of the three scripts
classifier == <<visible, scheme, buckets, breaks, position>>

\* the history variables: no step of a script reads them
hist == <<ran, firstStore>>

\* the one-feature file of the label derivation and its store
labelling == <<probe, probed>>

env == <<variant, file, sortTie, treeTie, classifier, labelling>>

Names == {"", " ", "Ann Lee"}
\* name.strip()
StripNothing(n) == n
Strip(n) == IF n = " " THEN "" ELSE n

NoCache == [hit |-> FALSE, gdf |-> EmptyFrame]
\* what a hit of st.cache_data hands out: a copy of the memoized frame
CacheReadFirstRow(c) == [rows |-> SubSeq(c.gdf.rows, 1, 1), cols |-> c.gdf.cols]
CacheRead(c) == c.gdf

NoStore == [rows |-> <<>>, cols |-> {"none"}]
BuildSteps == {"load", "clean", "sindex"}

AppInit ==
  /\ variant \in Variants
  /\ file \in Files
  /\ sortTie \in TieRules
  /\ treeTie \in TieRules
  /\ (variant = "app_survey" => treeTie = "first")   \* no index in app_survey.py
  /\ dataCache = NoCache
  /\ sindexCache = "unbuilt"
  /\ df = EmptyFrame
  /\ sindex = "unset"
  /\ pc = "load"
  /\ msg = "none"
  /\ rendered = FALSE
  /\ click = NoClick
  /\ selected = 0
  /\ path = "none"
  /\ raised = FALSE
  /\ name = ""
  /\ submitPressed = FALSE
  /\ posted = <<>>
  /\ backup = <<>>
  /\ colours = <<>>
  /\ ran = {}
  /\ firstStore = NoStore

Init ==
  /\ AppInit
  /\ visible = <<>> /\ scheme = "continuous" /\ buckets = 1
  /\ breaks = <<>> /\ position = <<>>
  /\ probe = NaN /\ probed = EmptyFrame

\* ------------------------------------------------------------ script steps
\* df = load_data(DF_PATH): the memoized frame, or a first execution.  A
\* call that ends in st.stop() or in an exception memoizes nothing.
LoadData ==
  /\ pc = "load"
  /\ LET r == IF dataCache.hit THEN [status |-> "ok", gdf |-> CacheRead(dataCache)]
              ELSE IF variant = "app_survey" THEN LoadDataSurvey(Features(file))
              ELSE LoadDataCached(Features(file))
     IN  /\ df' = r.gdf
         /\ dataCache' = IF r.status = "ok" THEN [hit |-> TRUE, gdf |-> r.gdf] ELSE dataCache
         /\ pc' = IF r.status # "ok" THEN r.status
                  ELSE IF variant = "app_survey" THEN "clean" ELSE "sindex"
         /\ msg' = IF r.status = "stopped" THEN "no_lines"
                   ELSE IF r.status = "crashed" THEN "exception" ELSE msg
         /\ ran' = IF dataCache.hit \/ r.status # "ok" THEN ran
                   ELSE IF variant = "app_survey" THEN ran \cup {"load"}
                   ELSE ran \cup {"load", "clean"}
         /\ firstStore' = IF variant # "app_survey" /\ r.status = "ok" /\ firstStore = NoStore
                            THEN r.gdf ELSE firstStore
  /\ UNCHANGED <<env, sindexCache, sindex, rendered, click, selected, path, raised,
                 name, submitPressed, posted, backup, colours>>

\* app_survey.py lines 170-194: module-level cleaning and the empty check
Clean ==
  /\ pc = "clean"
  /\ df' = CleanSurvey(df)
  /\ IF Len(df'.rows) = 0 THEN pc' = "stopped" /\ msg' = "no_lines"
                          ELSE pc' = "render" /\ msg' = msg
  /\ ran' = ran \cup {"clean"}
  /\ firstStore' = IF Len(df'.rows) > 0 /\ firstStore = NoStore THEN df' ELSE firstStore
  /\ UNCHANGED <<env, dataCache, sindexCache, sindex, rendered, click, selected, path,
                 raised, name, submitPressed, posted, backup, colours>>

\* sindex = get_sindex(df): the memoized value, or _gdf.sindex, or None when
\* building it raises
GetSindex ==
  /\ pc = "sindex"
  /\ IF sindexCache # "unbuilt"
       THEN sindex' = sindexCache /\ UNCHANGED <<sindexCache, ran>>
       ELSE /\ \E built \in {"ok", "none"} : sindex' = built /\ sindexCache' = built
            /\ ran' = ran \cup {"sindex"}
  /\ pc' = "render"
  /\ UNCHANGED <<env, dataCache, df, msg, rendered, click, selected, path, raised,
                 name, submitPressed, posted, backup, colours, firstStore>>

\* cmap = LinearColormap([...], vmin=0, vmax=1) and the style_function's
\* cmap(float(f["properties"].get("disturbance", 0))): the property is in
\* every feature (to_py turns a NaN into None), float(None) raises TypeError
vmin == 0
vmax == 100
TypeError == [k |-> "TypeError", v |-> 0]
StyleValue(r) == IF r.disturbance.k = "num" THEN r.disturbance ELSE TypeError
StyleValues(rows) == [i \in 1..Len(rows) |-> StyleValue(rows[i])]

\* folium map, GeoJson layer, st_folium(...)
Render ==
  /\ pc = "render"
  /\ colours' = StyleValues(df.rows)
  /\ IF \E i \in 1..Len(df.rows) : StyleValue(df.rows[i]) = TypeError
       THEN pc' = "crashed" /\ msg' = "exception" /\ UNCHANGED rendered
       ELSE pc' = "select" /\ rendered' = TRUE /\ UNCHANGED msg
  /\ UNCHANGED <<env, dataCache, sindexCache, df, sindex, click, selected, path,
                 raised, name, submitPressed, posted, backup, hist>>

\* df.distance(click_geom).sort_values().index[0]
BruteForceAnyRow(rows, p) == Pick(1..Len(rows), sortTie)
BruteForce(rows, p) == Pick(ArgMin(rows, p), sortTie)

\* sindex.nearest(click_geom, return_all=False), then the tree index
IndexNearest(rows, p) == Pick(ArgMin(rows, p), treeTie)

\* what the except branch leaves in selected
FallbackGivesUp(rows, p) == 0
Fallback(rows, p) == BruteForce(rows, p)

\* selection (nearest segment): app_survey.py 285-292, app_survey_2_mod.py
\* 242-274, app_survey_3.py 273-298
Select ==
  /\ pc = "select"
  /\ IF click = NoClick
       THEN selected' = 0 /\ path' = "none" /\ raised' = FALSE
       ELSE IF variant # "app_survey" /\ sindex # "none"
         THEN \E fails \in BOOLEAN :
                IF fails
                  THEN selected' = Fallback(df.rows, click) /\ path' = "brute" /\ raised' = TRUE
                  ELSE selected' = IndexNearest(df.rows, click) /\ path' = "index"
                       /\ raised' = FALSE
         ELSE selected' = BruteForce(df.rows, click) /\ path' = "brute" /\ raised' = FALSE
  /\ pc' = "form"
  /\ UNCHANGED <<env, dataCache, sindexCache, df, sindex, msg, rendered, click, name,
                 submitPressed, posted, backup, colours, hist>>

\* the response built from the selected row and the click (app_survey.py
\* 345-358, app_survey_2_mod.py 313-325, app_survey_3.py 427-445)
\* str(x) of a number: its decimal text, kept as the number it spells
Str(x) == [str |-> x]

PayloadSwapsLatLon(row, pt, who) ==
  [osmid |-> Str(row.osmid), highway |-> row.highway, pred_label |-> row.label,
   pred_score |-> row.disturbance, click_lat |-> pt[1], click_lon |-> pt[2], name |-> who]
Payload(row, pt, who) ==
  [osmid |-> Str(row.osmid), highway |-> row.highway, pred_label |-> row.label,
   pred_score |-> row.disturbance, click_lat |-> pt[2], click_lon |-> pt[1], name |-> who]

\* append_local_backup: a new file with the row, or the row added to the file
AppendLocalBackupRewrites(rows, row) == <<row>>
AppendLocalBackup(rows, row) == IF rows = <<>> THEN <<row>> ELSE Append(rows, row)

PostOutcomes == {"ok", "http_error", "exception"}

\* the form and its submit handler
Form ==
  /\ pc = "form"
  /\ IF selected = 0
       THEN msg' = "click_info" /\ pc' = "done" /\ UNCHANGED <<posted, backup>>
     ELSE IF ~submitPressed
       THEN pc' = "done" /\ UNCHANGED <<msg, posted, backup>>
     ELSE IF variant = "app_survey"
       THEN \* backup first, then the POST inside try/except
            /\ backup' = AppendLocalBackup(backup, Payload(df.rows[selected], click, ""))
            /\ posted' = Append(posted, Payload(df.rows[selected], click, ""))
            /\ \E outcome \in PostOutcomes \cup {"not_ok_reply"} :
                 msg' = IF outcome = "ok" THEN "thanks_sheet" ELSE "thanks_local"
            /\ pc' = "done"
     ELSE IF variant = "app_survey_3" /\ Strip(name) = ""
       THEN msg' = "validation" /\ pc' = "done" /\ UNCHANGED <<posted, backup>>
     ELSE \* send_to_google_form: requests.post outside any try
            /\ posted' = Append(posted, Payload(df.rows[selected], click,
                                IF variant = "app_survey_3" THEN Strip(name) ELSE ""))
            /\ \E outcome \in PostOutcomes :
                 /\ msg' = IF outcome = "ok" THEN "thanks"
                           ELSE IF outcome = "http_error" THEN "warning" ELSE "exception"
                 /\ pc' = IF outcome = "exception" THEN "crashed" ELSE "done"
            /\ UNCHANGED backup
  /\ UNCHANGED <<env, dataCache, sindexCache, df, sindex, rendered, click, selected,
                 path, raised, name, submitPressed, colours, hist>>

\* ---------------------------------------------------------- browser events
\* between two runs; the deployment is followed until the backup file holds
\* MaxSubmit rows
Idle == pc \in {"done", "stopped", "crashed"} /\ Len(backup) < MaxSubmit

\* every event re-executes the script from its first line; what the page
\* shows of the last run stays until the new run replaces it
StartRun(pressed) ==
  /\ pc' = "load"
  /\ df' = EmptyFrame
  /\ sindex' = "unset"
  /\ msg' = "none"
  /\ rendered' = FALSE
  /\ submitPressed' = pressed
  /\ posted' = <<>>
  /\ UNCHANGED <<env, dataCache, sindexCache, backup, colours, hist>>

\* a click on the drawn map: a new last_object_clicked
MapClick ==
  /\ Idle /\ rendered
  /\ \E p \in Points : click' = p
  /\ selected' = 0 /\ path' = "none" /\ raised' = FALSE
  /\ StartRun(FALSE)
  /\ UNCHANGED name

\* any other widget changes (language, rating, comment, ...): the same
\* last_object_clicked comes back from the map
WidgetChange ==
  /\ Idle
  /\ StartRun(FALSE)
  /\ UNCHANGED <<click, name, selected, path, raised>>

\* the submit button, drawn only under a selection; in app_survey_3.py the
\* name field holds whatever was typed before the press
SubmitPress ==
  /\ Idle /\ selected # 0
  /\ IF variant = "app_survey_3" THEN \E n \in Names : name' = n ELSE UNCHANGED name
  /\ StartRun(TRUE)
  /\ UNCHANGED <<click, selected, path, raised>>

\* the page is opened again: a new session on the same server process
Reload ==
  /\ Idle
  /\ click' = NoClick
  /\ name' = ""
  /\ selected' = 0 /\ path' = "none" /\ raised' = FALSE
  /\ StartRun(FALSE)

Next ==
  \/ LoadData
  \/ Clean
  \/ GetSindex
  \/ Render
  \/ Select
  \/ Form
  \/ MapClick
  \/ WidgetChange
  \/ SubmitPress
  \/ Reload

Spec == Init /\ [][Next]_vars

\* ------------------------------------------------------- score classifier
\* The classifier of the design document (section 4.2).  Scores are in
\* hundredths; a breakpoint is kept as k times its value and a normalized
\* position as numerator and denominator, so that nothing is rounded.
Schemes == {"continuous", "quantile", "equal_bins"}
ScorePool == {0, 10, 50, 90}
Visibles == UNION {[1..n -> ScorePool] : n \in 1..MaxVisible}

Values(v) == {v[i] : i \in 1..Len(v)}
Sorted(v) == SortSeq(v, LAMBDA a, b : a < b)

\* a length: units hundredths plus eps times the small constant epsilon
Quantity(u, e) == [units |-> u, eps |-> e]
Epsilon == Quantity(0, 1)
\* max(span, epsilon): every span that is not 0 is above epsilon
SpanUnguarded(span) == Quantity(span, 0)
MaxSpanEpsilon(span) == IF span > 0 THEN Quantity(span, 0) ELSE Epsilon

\* continuous: (score - min) / max(span, epsilon)
Continuous(v, s) ==
  [num |-> s - SetMin(Values(v)),
   den |-> MaxSpanEpsilon(SetMax(Values(v)) - SetMin(Values(v)))]

\* quantile: the j/k quantiles, j = 0..k, of the visible scores, linear
\* between neighbours (each times k)
QuantileBreaks(v, k) ==
  LET x == Sorted(v)
      n == Len(v)
  IN  [j \in 1..(k + 1) |->
         LET h == (j - 1) * (n - 1)
             lo == (h \div k) + 1
             r == h % k
         IN  IF r = 0 THEN k * x[lo] ELSE k * x[lo] + r * (x[lo + 1] - x[lo])]

\* equal bins: k+1 evenly spaced values from the least to the greatest
\* visible score (each times k)
EqualBreaksFromZero(v, k) == [j \in 1..(k + 1) |-> (j - 1) * SetMax(Values(v))]
EqualBreaks(v, k) ==
  [j \in 1..(k + 1) |-> k * SetMin(Values(v)) + (j - 1) * (SetMax(Values(v)) - SetMin(Values(v)))]

\* right-inclusive search: the greatest breakpoint index (from 0) whose
\* breakpoint does not exceed the score
BinIndexReversed(br, k, s) == k - SetMax({j \in 0..k : br[j + 1] <= k * s})
BinIndex(br, k, s) == SetMax({j \in 0..k : br[j + 1] <= k * s})

Breakpoints(sch, v, k) ==
  IF sch = "quantile" THEN QuantileBreaks(v, k)
  ELSE IF sch = "equal_bins" THEN EqualBreaks(v, k)
  ELSE <<>>

Normalized(sch, v, k, br, s) ==
  IF sch = "continuous" THEN Continuous(v, s)
  ELSE [num |-> BinIndex(br, k, s), den |-> Quantity(k, 0)]

\* the mapping from every visible score to its position
Classify(sch, v, k, br) == [s \in Values(v) |-> Normalized(sch, v, k, br, s)]

InitClassifier ==
  /\ AppInit /\ variant = "app_survey" /\ file = <<6>> /\ sortTie = "first"
  /\ visible \in Visibles
  /\ scheme \in Schemes
  /\ buckets \in 1..MaxBuckets
  /\ breaks = <<>>
  /\ position = <<>>
  /\ probe = NaN /\ probed = EmptyFrame

app == <<variant, file, sortTie, treeTie, dataCache, sindexCache, df, sindex, pc,
         msg, rendered, click, selected, path, raised, name, submitPressed,
         posted, backup, colours, ran, firstStore>>

\* the first classification of the visible set
ClassifyVisible ==
  /\ position = <<>>
  /\ breaks' = Breakpoints(scheme, visible, buckets)
  /\ position' = Classify(scheme, visible, buckets, breaks')
  /\ UNCHANGED <<app, labelling, visible, scheme, buckets>>

\* a filter changes the visible set: breakpoints and positions are recomputed
ChangeFilter ==
  /\ position # <<>>
  /\ \E v \in Visibles : visible' = v
  /\ visible' # visible
  /\ breaks' = Breakpoints(scheme, visible', buckets)
  /\ position' = Classify(scheme, visible', buckets, breaks')
  /\ UNCHANGED <<app, labelling, scheme, buckets>>

\* another scheme or another k is selected
ChangeScheme ==
  /\ position # <<>>
  /\ \E sch \in Schemes, k \in 1..MaxBuckets : scheme' = sch /\ buckets' = k
  /\ <<scheme', buckets'>> # <<scheme, buckets>>
  /\ breaks' = Breakpoints(scheme', visible, buckets')
  /\ position' = Classify(scheme', visible, buckets', breaks')
  /\ UNCHANGED <<app, labelling, visible>>

NextClassifier ==
  \/ ClassifyVisible
  \/ ChangeFilter
  \/ ChangeScheme

SpecClassifier == InitClassifier /\ [][NextClassifier]_vars

\* --------------------------------------------------------- label derivation
\* The label derivation of the three loaders on a file of one LineString
\* feature that carries a "disturbance" property and no "disturbance_label".
RawScores ==
  {Num(v) : v \in (0 - MaxOver)..(100 + MaxOver)} \cup {NaN, Text}

ProbeFile(s) == <<Feature(LS(LineA), s, "absent", "primary")>>

\* load and cleaning of the deployed script on the features fs
BuildStore(fs) ==
  IF variant = "app_survey" THEN CleanSurvey(LoadDataSurvey(fs).gdf)
  ELSE LoadDataCached(fs).gdf

\* the score pd.cut is applied to: the coerced score in load_data of
\* app_survey.py (lines 151-158), the clamped score in the other two
CutInput ==
  IF variant = "app_survey" THEN ToNumeric(probe) ELSE Clip(FillNa(ToNumeric(probe)))

InitLabel ==
  /\ AppInit /\ file = <<6>> /\ sortTie = "first" /\ treeTie = "first"
  /\ visible = <<>> /\ scheme = "continuous" /\ buckets = 1
  /\ breaks = <<>> /\ position = <<>>
  /\ probe \in RawScores
  /\ probed = EmptyFrame

\* the store is built from the one-feature file
LabelProbe ==
  /\ probed = EmptyFrame
  /\ probed' = BuildStore(ProbeFile(probe))
  /\ UNCHANGED <<app, classifier, probe>>

\* another file is put at DF_PATH and the process restarted
ReplaceProbe ==
  /\ probed # EmptyFrame
  /\ \E s \in RawScores : probe' = s
  /\ probe' # probe
  /\ probed' = BuildStore(ProbeFile(probe'))
  /\ UNCHANGED <<app, classifier>>

NextLabel ==
  \/ LabelProbe
  \/ ReplaceProbe

SpecLabel == InitLabel /\ [][NextLabel]_vars

\* ================================================================ claims
\* the run holds a loaded and cleaned store in df
StoreBuilt == pc \in {"sindex", "render", "select", "form", "done"}
                \/ (pc = "crashed" /\ rendered)
\* the run has passed the selection block
PostSelect == pc \in {"form", "done"} \/ (pc = "crashed" /\ rendered)
Rows == 1..Len(df.rows)
Parent(i) == Features(file)[df.rows[i].src]
RawScore(i) == Parent(i).disturbance
DistTo(i) == GeomDist2(df.rows[i].geometry, click)

\* the parts a feature contributes to the store: those of a non-null,
\* non-empty LineString or MultiLineString
KeptParts(f) ==
  IF f.geometry.type \in {"LineString", "MultiLineString"} THEN Len(f.geometry.parts) ELSE 0
RECURSIVE SumKeptParts(_)
SumKeptParts(fs) == IF fs = <<>> THEN 0 ELSE KeptParts(Head(fs)) + SumKeptParts(Tail(fs))

\* the scores of a built store are numbers within [0, 1], 0.0 where the raw
\* score was NaN, non-numeric or missing
ClampOnBuiltStore ==
  StoreBuilt =>
    \A i \in Rows :
      /\ df.rows[i].disturbance.k = "num"
      /\ df.rows[i].disturbance.v >= 0
      /\ df.rows[i].disturbance.v <= 100
      /\ (RawScore(i).k # "num" => df.rows[i].disturbance.v = 0)

\* C1: whatever the raw scores of the file's line features (inside or outside
\* [0, 1], NaN, non-numeric, missing), load and cleaning give a store that
\* holds them, every score a number within [0, 1], and 0.0 where the raw
\* value was NaN, non-numeric or missing.
C1_ScoreClamp ==
  /\ (pc \notin {"load", "clean"} /\ SumKeptParts(Features(file)) > 0) => StoreBuilt
  /\ ClampOnBuiltStore

\* C2: every segment whose feature supplied no category has a category among
\* Low, Medium, High, the one the breakpoints give its stored score.
C2_CategoryFromStoredScore ==
  StoreBuilt =>
    \A i \in Rows :
      Parent(i).label = "absent" =>
        /\ df.rows[i].label \in {"Low", "Medium", "High"}
        /\ df.rows[i].label = Cut(df.rows[i].disturbance)

\* C3: the segment selected for a click is at the least distance from it; a
\* click lying on one segment only selects that segment, at distance 0.
C3_NearestIsMinimum ==
  (PostSelect /\ click # NoClick) =>
    /\ selected \in Rows
    /\ \A j \in Rows : DistTo(selected) <= DistTo(j)
    /\ \A b \in Rows :
         (DistTo(b) = 0 /\ \A j \in Rows \ {b} : DistTo(j) > 0) => selected = b

\* three segments apart from each other, the click on the midpoint of the
\* third and on no other, the third selected
C3_Witness ==
  /\ PostSelect
  /\ Len(df.rows) = 3
  /\ df.rows[3].geometry = LS(LineC) /\ click = <<2, 1>>
  /\ selected = 3
  /\ DistTo(3) = 0 /\ DistTo(1) > 0 /\ DistTo(2) > 0

\* C4: of several segments at the least distance the selection is the one of
\* lowest position in the store, on the index path and on the sort path.
C4_TieLowestIndex ==
  (PostSelect /\ click # NoClick) => selected = SetMin(ArgMin(df.rows, click))

\* C5: a query repeated for the same store and the same click returns the
\* segment it returned before.
C5_RepeatedQuerySame ==
  [][(pc = "select" /\ click # NoClick /\ path # "none") => selected' = selected]_vars

\* C6: the segment found through the spatial index is the one the distance
\* sort finds.
C6_IndexEqualsBruteForce ==
  (PostSelect /\ path = "index") => selected = BruteForce(df.rows, click)

\* C7: with no index, or when the index query raises, the click still gets
\* its selection from the distance scan, a segment at the least distance, and
\* the run goes on to the form.
C7_FallbackOnIndexFailure ==
  /\ (pc = "crashed" /\ posted = <<>>) => ~rendered
  /\ (PostSelect /\ click # NoClick /\ (sindex = "none" \/ raised)) =>
       /\ path = "brute"
       /\ selected \in ArgMin(df.rows, click)

\* the index query raised over a store of several segments, not all at the
\* same distance from the click
C7_Witness ==
  /\ pc = "done" /\ raised /\ sindex = "ok"
  /\ selected \in ArgMin(df.rows, click)
  /\ ArgMin(df.rows, click) # Rows

\* C8: the store has one segment per part of every feature with a non-null,
\* non-empty line geometry and nothing else; every segment is one polyline.
C8_CleaningCount ==
  (StoreBuilt \/ pc = "stopped") =>
    /\ Len(df.rows) = SumKeptParts(Features(file))
    /\ \A i \in Rows :
         df.rows[i].geometry.type = "LineString" /\ Len(df.rows[i].geometry.parts) = 1

\* a null geometry and a two-part MultiLineString give two segments
C8_Witness ==
  /\ StoreBuilt
  /\ Len(file) = 2
  /\ Features(file)[1].geometry = NullGeom
  /\ Features(file)[2].geometry.type = "MultiLineString"
  /\ Len(Features(file)[2].geometry.parts) = 2
  /\ Len(df.rows) = 2

C10_EmptyDatasetFatal ==
  /\ (SumKeptParts(Features(file)) = 0 /\ pc \notin {"load", "clean"}) =>
       /\ pc = "stopped" /\ msg = "no_lines"
       /\ ~rendered /\ sindex = "unset" /\ sindexCache = "unbuilt"
       /\ path = "none" /\ selected = 0
       /\ posted = <<>> /\ backup = <<>>
       /\ ~ENABLED SubmitPress /\ ~ENABLED MapClick
  /\ pc = "stopped" => SumKeptParts(Features(file)) = 0
  /\ (PostSelect /\ path # "none") => Len(df.rows) >= 1

\* C11: cleaning an already cleaned store (geometry filters, line-type
\* filter, explode, coercion and clamp, category fallback) gives the same
\* store: same segments, order, scores and categories.
C11_CleaningIdempotent ==
  StoreBuilt => CleanSurvey(df) = df

\* a store that cleaning made of a file it had to change: a feature dropped,
\* a MultiLineString split and its score clamped
C11_Witness ==
  /\ StoreBuilt
  /\ Len(file) = 2 /\ Len(df.rows) = 2
  /\ df.rows[1].src = 2 /\ df.rows[2].src = 2
  /\ RawScore(1) = Num(130) /\ df.rows[1].disturbance = Num(100)
  /\ CleanSurvey(df) = df

\* C12: loading, cleaning and index construction each execute at most once
\* in a process: a step that has produced its result is not executed again,
\* later runs take the memoized result.
C12_BuildAtMostOnce ==
  [][/\ (pc = "load" /\ pc' # "load" /\ ~dataCache.hit) => "load" \notin ran
     /\ (pc = "clean" /\ pc' # "clean") => "clean" \notin ran
     /\ (pc = "load" /\ pc' # "load" /\ ~dataCache.hit /\ variant # "app_survey")
          => "clean" \notin ran
     /\ (pc = "sindex" /\ pc' # "sindex" /\ sindexCache = "unbuilt") => "sindex" \notin ran]_vars

\* C13: the store a run holds, at any step of any later run and after any
\* click, query or submission, is the store as first built; the memoized
\* frame of the cached loaders is that store too.
C13_StoreReadOnly ==
  /\ StoreBuilt => df = firstStore
  /\ (dataCache.hit /\ variant # "app_survey") => dataCache.gdf = firstStore

\* a run started by a submit press, over a store of several segments, has
\* posted its response and holds the store as first built
C13_Witness ==
  /\ pc = "done" /\ posted # <<>>
  /\ Len(df.rows) >= 2
  /\ df = firstStore

\* the map of the run shows the store
MapDrawn == rendered /\ Len(colours) = Len(df.rows)

\* C15: the value handed to the colour ramp for a segment is within
\* [0, 1] and depends on the segment's score alone: the map drawn again after
\* any interaction gives every segment the value it had.
C15_RampValue ==
  /\ MapDrawn =>
       \A i \in Rows :
         /\ colours[i].k = "num" /\ colours[i].v >= vmin /\ colours[i].v <= vmax
         /\ \A j \in Rows :
              df.rows[i].disturbance = df.rows[j].disturbance => colours[i] = colours[j]
  /\ (pc = "render" /\ colours # <<>>) => StyleValues(df.rows) = colours

\* a map drawn for the second time, of segments with different scores
C15_Witness ==
  /\ MapDrawn /\ "clean" \in ran /\ submitPressed
  /\ \E i, j \in Rows : colours[i] = Num(100) /\ colours[j] = Num(0)

\* C18: in app_survey.py the backup file changes only in the submit handler,
\* by exactly one row added at its end, whatever the reply to the POST; so n
\* submits leave n rows in submit order.
C18_BackupPerSubmit ==
  [][IF variant = "app_survey" /\ pc = "form" /\ submitPressed
       THEN /\ backup' = Append(backup, Payload(df.rows[selected], click, ""))
            /\ pc' = "done"
       ELSE backup' = backup]_vars

\* two submits, the first one's POST answered and the second one's failed,
\* and both rows in the file
C18_Witness ==
  /\ variant = "app_survey" /\ pc = "done" /\ msg = "thanks_local"
  /\ Len(backup) = 2 /\ backup[1] # backup[2]
  /\ backup[2] = posted[1]

\* C19: a run that has sent a response has a click and a segment selected
\* for it; the payload carries that segment's osmid, road type, label and
\* score and the click's coordinates, and so does the row backed up.
C19_PayloadOfSelection ==
  posted # <<>> =>
    /\ Len(posted) = 1
    /\ click # NoClick
    /\ selected \in ArgMin(df.rows, click)
    /\ posted[1].osmid = Str(df.rows[selected].osmid)
    /\ posted[1].highway = df.rows[selected].highway
    /\ posted[1].pred_label = df.rows[selected].label
    /\ posted[1].pred_score = df.rows[selected].disturbance
    /\ posted[1].click_lon = click[1] /\ posted[1].click_lat = click[2]
    /\ (variant = "app_survey" => backup # <<>> /\ backup[Len(backup)] = posted[1])

\* a response sent for the second of three segments, the click off the
\* diagonal
C19_Witness ==
  /\ Len(posted) = 1
  /\ Len(df.rows) = 3 /\ selected = 2
  /\ click[1] # click[2]
  /\ posted[1].osmid = Str(OsmidOf(1))

\* C20: in app_survey_3.py a run started by a submit press with an empty or
\* whitespace-only name ends on the validation error with nothing sent; with
\* a name it sends exactly one request.
C20_NameValidation ==
  (variant = "app_survey_3" /\ submitPressed /\ pc \in {"done", "crashed"}) =>
    IF name \in {"", " "}
      THEN posted = <<>> /\ msg = "validation" /\ pc = "done"
      ELSE Len(posted) = 1 /\ posted[1].name = "Ann Lee"

\* a submit press with a whitespace-only name, refused
C20_Witness ==
  /\ variant = "app_survey_3" /\ submitPressed /\ pc = "done"
  /\ name = " " /\ posted = <<>> /\ msg = "validation"

\* the denominator is not zero
Divides(q) == q.units > 0 \/ q.eps > 0

\* C14: under every scheme and for every visible set, of two visible scores
\* the lower has a position not above that of the higher.
C14_Monotone ==
  \A a, b \in DOMAIN position :
    a < b => /\ position[a].den = position[b].den
             /\ Divides(position[a].den)
             /\ position[a].num <= position[b].num

\* quantile buckets over three different scores, the lowest in the first
\* bucket and the highest in the last
C14_Witness ==
  /\ scheme = "quantile" /\ buckets = 2
  /\ visible = <<90, 10, 50>>
  /\ DOMAIN position = {10, 50, 90}
  /\ position[10].num = 0 /\ position[50].num = 1 /\ position[90].num = 2

\* C16: continuous scheme over a visible set whose scores are all equal:
\* the position is 0 over a denominator that is not 0.
C16_ContinuousFlat ==
  (scheme = "continuous" /\ position # <<>> /\ SetMin(Values(visible)) = SetMax(Values(visible))) =>
    \A s \in DOMAIN position :
      position[s].num = 0 /\ Divides(position[s].den)

\* two visible segments with the same score
C16_Witness ==
  /\ scheme = "continuous" /\ visible = <<50, 50>>
  /\ DOMAIN position = {50}
  /\ position[50].num = 0 /\ position[50].den = Epsilon

\* C17: equal bins: the k+1 breakpoints run evenly from the least to the
\* greatest visible score and a score's position is, over k, the greatest
\* breakpoint index whose breakpoint is not above it; for 0.1, 0.5, 0.9 and
\* k = 5 the breakpoints are 0.1, 0.26, 0.42, 0.58, 0.74, 0.9 and 0.5 is at
\* index 2, position 0.4.
C17_EqualBins ==
  (scheme = "equal_bins" /\ position # <<>>) =>
    /\ Len(breaks) = buckets + 1
    /\ breaks[1] = buckets * SetMin(Values(visible))
    /\ breaks[buckets + 1] = buckets * SetMax(Values(visible))
    /\ \A j \in 1..buckets :
         breaks[j + 1] - breaks[j] = SetMax(Values(visible)) - SetMin(Values(visible))
    /\ \A s \in DOMAIN position :
         /\ position[s].den = Quantity(buckets, 0)
         /\ position[s].num \in 0..buckets
         /\ breaks[position[s].num + 1] <= buckets * s
         /\ \A j \in 0..buckets : breaks[j + 1] <= buckets * s => j <= position[s].num
    /\ (Values(visible) = {10, 50, 90} /\ buckets = 5) =>
         /\ breaks = <<5 * 10, 5 * 26, 5 * 42, 5 * 58, 5 * 74, 5 * 90>>
         /\ position[50].num = 2
         /\ 10 * position[50].num = 4 * position[50].den.units

\* the scenario of the design document
C17_Witness ==
  /\ scheme = "equal_bins" /\ buckets = 5 /\ visible = <<10, 50, 90>>
  /\ DOMAIN position = {10, 50, 90}
  /\ position[50] = [num |-> 2, den |-> Quantity(5, 0)]

\* C21: a derived category follows right-closed intervals with the lowest
\* bound included: a score given to the derivation that lies in [0, 0.33] is
\* Low, one in (0.33, 0.66] is Medium, one in (0.66, 1] is High; so 0.0 and
\* 0.33 are Low, 0.66 is Medium, 1.0 is High, and every score in [0, 1] gets
\* one of the three categories.
C21_CutIntervals ==
  (probed # EmptyFrame /\ CutInput.k = "num" /\ CutInput.v >= 0 /\ CutInput.v <= 100) =>
    /\ Len(probed.rows) = 1
    /\ probed.rows[1].disturbance = CutInput
    /\ probed.rows[1].label \in {"Low", "Medium", "High"}
    /\ (probed.rows[1].label = "Low" <=> CutInput.v <= 33)
    /\ (probed.rows[1].label = "Medium" <=> (33 < CutInput.v /\ CutInput.v <= 66))
    /\ (probed.rows[1].label = "High" <=> 66 < CutInput.v)

\* a store built from a feature whose score is exactly 0.33, labelled Low
C21_Witness ==
  /\ probe = Num(33)
  /\ probed # EmptyFrame
  /\ probed.rows[1].label = "Low"
====
